---- MODULE Spec2Model ----
(***************************************************************************)
(* GitHubAppAuth (src/src/core.ts) with its validators (src/src/utils.ts). *)
(*                                                                         *)
(* JavaScript values are tagged records: Undef, Num(n), Str(s), NaN and    *)
(* Frac (a number that is not an integer).  Strings are TLA+ strings and   *)
(* every message, URL and token is built character for character the way   *)
(* the template literals of the source build it.                           *)
(***************************************************************************)
EXTENDS Integers, Sequences, FiniteSets, TLC

VARIABLES
    globalFetch,    \* typeof globalThis.fetch === 'function' in this runtime
    options,        \* the options object handed to `new GitHubAppAuth(options)`
    client,         \* the GitHubAppAuth instance (or the error its constructor threw)
    clockMs,        \* Date.now()
    callers,        \* the callers that invoke methods on the client
    ops             \* per caller: the method invocation in progress or last finished

vars == <<globalFetch, options, client, clockMs, callers, ops>>

-----------------------------------------------------------------------------
(* JavaScript values *)

Undef == [t |-> "undefined"]
NaN == [t |-> "NaN"]
Frac == [t |-> "fraction"]
Num(n) == [t |-> "number", n |-> n]
Str(s) == [t |-> "string", s |-> s]

\* `!v` is false exactly for these values.
Truthy(v) ==
    CASE v.t = "undefined" -> FALSE
      [] v.t = "NaN" -> FALSE
      [] v.t = "number" -> v.n # 0
      [] v.t = "string" -> v.s # ""
      [] OTHER -> TRUE

\* `a ?? b`
Coalesce(a, b) == IF a = Undef THEN b ELSE a

\* `${v}` in a template literal
TemplateString(v) ==
    CASE v.t = "number" -> ToString(v.n)
      [] v.t = "string" -> v.s
      [] v.t = "NaN" -> "NaN"
      [] OTHER -> "undefined"

-----------------------------------------------------------------------------
(* Strings *)

Char(s, i) == SubSeq(s, i, i)

Whitespace == {" ", "\t", "\n", "\r", "\f"}

RECURSIVE TrimStart(_)
TrimStart(s) ==
    IF Len(s) > 0 /\ Char(s, 1) \in Whitespace
    THEN TrimStart(SubSeq(s, 2, Len(s)))
    ELSE s

RECURSIVE TrimEnd(_)
TrimEnd(s) ==
    IF Len(s) > 0 /\ Char(s, Len(s)) \in Whitespace
    THEN TrimEnd(SubSeq(s, 1, Len(s) - 1))
    ELSE s

\* String.prototype.trim
Trim(s) == TrimEnd(TrimStart(s))

\* s.includes(t)
Includes(s, t) ==
    \E i \in 1..(Len(s) - Len(t) + 1) : SubSeq(s, i, i + Len(t) - 1) = t

StartsWith(s, t) == Len(t) <= Len(s) /\ SubSeq(s, 1, Len(t)) = t

EndsWith(s, t) == Len(t) <= Len(s) /\ SubSeq(s, Len(s) - Len(t) + 1, Len(s)) = t

\* The first index at or after `from` where `t` occurs in `s`, 0 if none.
IndexOf(s, t, from) ==
    IF \E i \in from..(Len(s) - Len(t) + 1) : SubSeq(s, i, i + Len(t) - 1) = t
    THEN CHOOSE i \in from..(Len(s) - Len(t) + 1) :
             /\ SubSeq(s, i, i + Len(t) - 1) = t
             /\ \A j \in from..(i - 1) : SubSeq(s, j, j + Len(t) - 1) # t
    ELSE 0

\* s.replace(/from/g, to) for a literal, non-empty `from`
RECURSIVE ReplaceAll(_, _, _)
ReplaceAll(s, from, to) ==
    IF Len(s) < Len(from) THEN s
    ELSE IF SubSeq(s, 1, Len(from)) = from
         THEN to \o ReplaceAll(SubSeq(s, Len(from) + 1, Len(s)), from, to)
         ELSE Char(s, 1) \o ReplaceAll(SubSeq(s, 2, Len(s)), from, to)

\* s.replace(/\/+$/, '')
RECURSIVE StripTrailingSlashes(_)
StripTrailingSlashes(s) ==
    IF Len(s) > 0 /\ Char(s, Len(s)) = "/"
    THEN StripTrailingSlashes(SubSeq(s, 1, Len(s) - 1))
    ELSE s

Digits == {"0", "1", "2", "3", "4", "5", "6", "7", "8", "9"}

DigitValue(c) ==
    CASE c = "0" -> 0 [] c = "1" -> 1 [] c = "2" -> 2 [] c = "3" -> 3
      [] c = "4" -> 4 [] c = "5" -> 5 [] c = "6" -> 6 [] c = "7" -> 7
      [] c = "8" -> 8 [] c = "9" -> 9

AllDigits(s) == \A i \in 1..Len(s) : Char(s, i) \in Digits

RECURSIVE DecimalValue(_)
DecimalValue(s) ==
    IF Len(s) = 0 THEN 0
    ELSE 10 * DecimalValue(SubSeq(s, 1, Len(s) - 1)) + DigitValue(Char(s, Len(s)))

\* Number(s) for decimal literals: surrounding whitespace is dropped, the
\* empty string is 0, an optional sign, digits, an optional fraction; any
\* other text is NaN.
NumberOfUnsigned(s) ==
    LET dot == IF Includes(s, ".")
               THEN CHOOSE i \in 1..Len(s) :
                        Char(s, i) = "." /\ ~Includes(SubSeq(s, 1, i - 1), ".")
               ELSE 0
        whole == IF dot = 0 THEN s ELSE SubSeq(s, 1, dot - 1)
        fraction == IF dot = 0 THEN "" ELSE SubSeq(s, dot + 1, Len(s))
    IN  IF Len(whole) + Len(fraction) = 0 \/ ~AllDigits(whole) \/ ~AllDigits(fraction)
        THEN NaN
        ELSE IF DecimalValue(fraction) # 0 THEN Frac
        ELSE Num(DecimalValue(whole))

NumberOf(s) ==
    LET t == Trim(s)
    IN  IF t = "" THEN Num(0)
        ELSE IF Char(t, 1) = "-"
             THEN LET u == NumberOfUnsigned(SubSeq(t, 2, Len(t)))
                  IN  IF u.t = "number" THEN Num(0 - u.n) ELSE u
        ELSE IF Char(t, 1) = "+" THEN NumberOfUnsigned(SubSeq(t, 2, Len(t)))
        ELSE NumberOfUnsigned(t)

-----------------------------------------------------------------------------
(* Outcomes of a function that may throw *)

Return(v) == [threw |-> FALSE, value |-> v, message |-> ""]
Throw(m) == [threw |-> TRUE, value |-> Undef, message |-> m]

-----------------------------------------------------------------------------
(* src/src/utils.ts: validators.  A TLA+ string cannot hold a backtick, so   *)
(* the backticks of the source's messages are written as apostrophes.      *)

NonEmptyStringMessage(fieldName) == "'" \o fieldName \o "' must be a non-empty string."

PositiveIntegerMessage(fieldName) == "'" \o fieldName \o "' must be a positive integer."

JwtExpiresPositiveMessage == "'jwtExpiresInSeconds' must be a positive integer."

JwtExpiresCeilingMessage == "'jwtExpiresInSeconds' cannot exceed 600 seconds."

FetchUnavailableMessage ==
    "'fetch' is not available in this runtime. Provide a fetch implementation in the constructor options."

normalizeRequiredNonEmptyString(value, fieldName) ==
    LET trimmed == Trim(value)
    IN  IF trimmed = "" THEN Throw(NonEmptyStringMessage(fieldName))
        ELSE Return(Str(trimmed))

\* normalizePrivateKey with replace('\\n', '\n'): the first escape only.
normalizePrivateKey_FirstOnly(privateKeyRaw) ==
    LET r == normalizeRequiredNonEmptyString(privateKeyRaw, "privateKey")
        at == IndexOf(r.value.s, "\\n", 1)
    IN  IF r.threw THEN r
        ELSE IF at = 0 THEN r
        ELSE Return(Str(SubSeq(r.value.s, 1, at - 1) \o "\n"
                        \o SubSeq(r.value.s, at + 2, Len(r.value.s))))

normalizePrivateKey(privateKeyRaw) ==
    LET r == normalizeRequiredNonEmptyString(privateKeyRaw, "privateKey")
    IN  IF r.threw THEN r
        ELSE Return(Str(ReplaceAll(r.value.s, "\\n", "\n")))

normalizeOptionalNonEmptyString(value, fieldName) ==
    IF value = Undef THEN Return(Undef)
    ELSE LET trimmed == Trim(value.s)
         IN  IF trimmed = "" THEN Throw(NonEmptyStringMessage(fieldName))
             ELSE Return(Str(trimmed))

parsePositiveInteger(value, fieldName) ==
    LET parsed == IF value.t = "string" THEN NumberOf(value.s) ELSE value
    IN  IF parsed.t # "number" \/ parsed.n <= 0
        THEN Throw(PositiveIntegerMessage(fieldName))
        ELSE Return(parsed)

parseOptionalInstallationId(value) ==
    IF value = Undef THEN Return(Undef)
    ELSE parsePositiveInteger(value, "installationId")

MaxJwtExpiresInSeconds == 600

\* The parser without its ceiling.
parseOptionalJwtExpiresInSeconds_NoCeiling(value) ==
    IF value = Undef THEN Return(Undef)
    ELSE IF value.t # "number" \/ value.n <= 0 THEN Throw(JwtExpiresPositiveMessage)
    ELSE Return(value)

\* The parser with the ceiling itself rejected.
parseOptionalJwtExpiresInSeconds_CeilingExclusive(value) ==
    IF value = Undef THEN Return(Undef)
    ELSE IF value.t # "number" \/ value.n <= 0 THEN Throw(JwtExpiresPositiveMessage)
    ELSE IF value.n >= MaxJwtExpiresInSeconds THEN Throw(JwtExpiresCeilingMessage)
    ELSE Return(value)

parseOptionalJwtExpiresInSeconds(value) ==
    IF value = Undef THEN Return(Undef)
    ELSE IF value.t # "number" \/ value.n <= 0 THEN Throw(JwtExpiresPositiveMessage)
    ELSE IF value.n > MaxJwtExpiresInSeconds THEN Throw(JwtExpiresCeilingMessage)
    ELSE Return(value)

\* `fetcher` is the `fetch` option (Undef when not given); the result names
\* the implementation the client will call.
resolveFetch(fetcher, ambient) ==
    IF Truthy(fetcher) THEN Return(Str("override"))
    ELSE IF ~ambient THEN Throw(FetchUnavailableMessage)
    ELSE Return(Str("globalThis.fetch"))

-----------------------------------------------------------------------------
(* src/src/core.ts: the constructor *)

DEFAULT_GITHUB_API_BASE_URL == "https://api.github.com"

DEFAULT_JWT_EXPIRES_IN_SECONDS == 540

OwnerRepoPairMessage ==
    "Both 'owner' and 'repo' must be provided together when setting a default repository target."

NoClient ==
    [status |-> "none", error |-> "", appId |-> Undef, privateKey |-> Undef,
     owner |-> Undef, repo |-> Undef, installationId |-> Undef,
     jwtExpiresInSeconds |-> Undef, apiBaseUrl |-> Undef, fetcher |-> Undef]

ConstructorThrew(m) == [NoClient EXCEPT !.status = "threw", !.error = m]

\* `new GitHubAppAuth(o)`: the assignments of the constructor in source
\* order; the first validator that throws ends it.
Construct(o, ambient) ==
    LET appId == parsePositiveInteger(o.appId, "appId")
        privateKey == normalizePrivateKey(o.privateKey)
        owner == normalizeOptionalNonEmptyString(o.owner, "owner")
        repo == normalizeOptionalNonEmptyString(o.repo, "repo")
        installationId == parseOptionalInstallationId(o.installationId)
        expires == parseOptionalJwtExpiresInSeconds(o.jwtExpiresInSeconds)
        baseUrl == normalizeOptionalNonEmptyString(o.apiBaseUrl, "apiBaseUrl")
        fetcher == resolveFetch(o.fetch, ambient)
    IN  IF appId.threw THEN ConstructorThrew(appId.message)
        ELSE IF privateKey.threw THEN ConstructorThrew(privateKey.message)
        ELSE IF owner.threw THEN ConstructorThrew(owner.message)
        ELSE IF repo.threw THEN ConstructorThrew(repo.message)
        ELSE IF installationId.threw THEN ConstructorThrew(installationId.message)
        ELSE IF expires.threw THEN ConstructorThrew(expires.message)
        ELSE IF baseUrl.threw THEN ConstructorThrew(baseUrl.message)
        ELSE IF fetcher.threw THEN ConstructorThrew(fetcher.message)
        ELSE IF (Truthy(owner.value) /\ ~Truthy(repo.value))
                \/ (~Truthy(owner.value) /\ Truthy(repo.value))
             THEN ConstructorThrew(OwnerRepoPairMessage)
        ELSE [status |-> "constructed",
              error |-> "",
              appId |-> appId.value,
              privateKey |-> privateKey.value,
              owner |-> owner.value,
              repo |-> repo.value,
              installationId |-> installationId.value,
              jwtExpiresInSeconds |->
                  Coalesce(expires.value, Num(DEFAULT_JWT_EXPIRES_IN_SECONDS)),
              apiBaseUrl |->
                  Str(StripTrailingSlashes(
                      Coalesce(baseUrl.value, Str(DEFAULT_GITHUB_API_BASE_URL)).s)),
              fetcher |-> fetcher.value]

-----------------------------------------------------------------------------
(* src/src/utils.ts: toBase64UrlJson.  An object is the sequence of its    *)
(* <<key, value>> pairs in construction order.                             *)

\* The printable ASCII characters 32..95 and 97..126, in code order.
AsciiLow == " !\"#$%&'()*+,-./0123456789:;<=>?@ABCDEFGHIJKLMNOPQRSTUVWXYZ[\\]^_"

AsciiHigh == "abcdefghijklmnopqrstuvwxyz{|}~"

AsciiCode ==
    [c \in {Char(AsciiLow, i) : i \in 1..Len(AsciiLow)}
           \cup {Char(AsciiHigh, i) : i \in 1..Len(AsciiHigh)} |->
        IF \E i \in 1..Len(AsciiLow) : Char(AsciiLow, i) = c
        THEN 31 + (CHOOSE i \in 1..Len(AsciiLow) : Char(AsciiLow, i) = c)
        ELSE 96 + (CHOOSE i \in 1..Len(AsciiHigh) : Char(AsciiHigh, i) = c)]

AsciiChar(code) ==
    IF code <= 95 THEN Char(AsciiLow, code - 31) ELSE Char(AsciiHigh, code - 96)

\* Buffer.from(s): the UTF-8 bytes of an ASCII string
BufferFrom(s) == [i \in 1..Len(s) |-> AsciiCode[Char(s, i)]]

\* buffer.toString('utf-8')
RECURSIVE BufferToString(_)
BufferToString(bytes) ==
    IF Len(bytes) = 0 THEN ""
    ELSE AsciiChar(Head(bytes)) \o BufferToString(Tail(bytes))

Base64UrlAlphabet == "ABCDEFGHIJKLMNOPQRSTUVWXYZabcdefghijklmnopqrstuvwxyz0123456789-_"

Base64UrlDigit(n) == Char(Base64UrlAlphabet, n + 1)

Base64UrlValue ==
    [c \in {Char(Base64UrlAlphabet, i) : i \in 1..64} |->
        (CHOOSE i \in 1..64 : Char(Base64UrlAlphabet, i) = c) - 1]

\* buffer.toString('base64url'): 3 bytes to 4 digits, no padding
RECURSIVE Base64UrlEncode(_)
Base64UrlEncode(bytes) ==
    IF Len(bytes) = 0 THEN ""
    ELSE IF Len(bytes) = 1
         THEN Base64UrlDigit(bytes[1] \div 4) \o Base64UrlDigit((bytes[1] % 4) * 16)
    ELSE IF Len(bytes) = 2
         THEN Base64UrlDigit(bytes[1] \div 4)
              \o Base64UrlDigit((bytes[1] % 4) * 16 + bytes[2] \div 16)
              \o Base64UrlDigit((bytes[2] % 16) * 4)
    ELSE Base64UrlDigit(bytes[1] \div 4)
         \o Base64UrlDigit((bytes[1] % 4) * 16 + bytes[2] \div 16)
         \o Base64UrlDigit((bytes[2] % 16) * 4 + bytes[3] \div 64)
         \o Base64UrlDigit(bytes[3] % 64)
         \o Base64UrlEncode(SubSeq(bytes, 4, Len(bytes)))

\* Buffer.from(s, 'base64url')
RECURSIVE Base64UrlDecode(_)
Base64UrlDecode(s) ==
    LET v(i) == Base64UrlValue[Char(s, i)]
        b1 == v(1) * 4 + v(2) \div 16
        b2 == (v(2) % 16) * 16 + v(3) \div 4
        b3 == (v(3) % 4) * 64 + v(4)
    IN  IF Len(s) < 2 THEN <<>>
        ELSE IF Len(s) = 2 THEN <<b1>>
        ELSE IF Len(s) = 3 THEN <<b1, b2>>
        ELSE <<b1, b2, b3>> \o Base64UrlDecode(SubSeq(s, 5, Len(s)))

JsonValue(v) == IF v.t = "string" THEN "\"" \o v.s \o "\"" ELSE TemplateString(v)

RECURSIVE JsonMembers(_)
JsonMembers(object) ==
    IF Len(object) = 0 THEN ""
    ELSE "\"" \o object[1][1] \o "\":" \o JsonValue(object[1][2])
         \o (IF Len(object) > 1 THEN "," ELSE "")
         \o JsonMembers(Tail(object))

\* JSON.stringify of an object whose values are numbers and plain strings
JsonStringify(object) == "{" \o JsonMembers(object) \o "}"

toBase64UrlJson(value) == Base64UrlEncode(BufferFrom(JsonStringify(value)))

\* JSON.parse(text)[key] for the objects JsonStringify writes
JsonMember(text, key) ==
    LET at == IndexOf(text, "\"" \o key \o "\":", 1)
        start == at + Len(key) + 3
        comma == IndexOf(text, ",", start)
        stop == IF comma = 0 THEN Len(text) ELSE comma
        raw == SubSeq(text, start, stop - 1)
    IN  IF at = 0 THEN Undef
        ELSE IF Char(raw, 1) = "\"" THEN Str(SubSeq(raw, 2, Len(raw) - 1))
        ELSE NumberOf(raw)

-----------------------------------------------------------------------------
(* src/src/core.ts: createJwt *)

ClockSkewSeconds == 60

\* signer.sign(privateKey, 'base64url') of node:crypto.  The RSA signature
\* itself is outside the repository; it is kept as a base64url string that
\* the signing input and the key determine.
RsaSha256Sign(signingInput, privateKey) ==
    Base64UrlEncode(<<Len(signingInput) % 256, Len(privateKey) % 256,
                      AsciiCode[Char(signingInput, Len(signingInput))]>>)

\* createJwt() that does not backdate iat.
createJwt_NoBackdate(c, ms) ==
    LET now == ms \div 1000
        payload == << <<"iat", Num(now)>>,
                      <<"exp", Num(now + c.jwtExpiresInSeconds.n)>>,
                      <<"iss", c.appId>> >>
        header == << <<"alg", Str("RS256")>>, <<"typ", Str("JWT")>> >>
        encodedHeader == toBase64UrlJson(header)
        encodedPayload == toBase64UrlJson(payload)
        signingInput == encodedHeader \o "." \o encodedPayload
        signature == RsaSha256Sign(signingInput, c.privateKey.s)
    IN  signingInput \o "." \o signature

\* createJwt() that always uses the default window.
createJwt_DefaultWindow(c, ms) ==
    LET now == ms \div 1000
        payload == << <<"iat", Num(now - ClockSkewSeconds)>>,
                      <<"exp", Num(now + DEFAULT_JWT_EXPIRES_IN_SECONDS)>>,
                      <<"iss", c.appId>> >>
        header == << <<"alg", Str("RS256")>>, <<"typ", Str("JWT")>> >>
        encodedHeader == toBase64UrlJson(header)
        encodedPayload == toBase64UrlJson(payload)
        signingInput == encodedHeader \o "." \o encodedPayload
        signature == RsaSha256Sign(signingInput, c.privateKey.s)
    IN  signingInput \o "." \o signature

\* createJwt() on instance `c` when Date.now() is `ms`
createJwt(c, ms) ==
    LET now == ms \div 1000
        payload == << <<"iat", Num(now - ClockSkewSeconds)>>,
                      <<"exp", Num(now + c.jwtExpiresInSeconds.n)>>,
                      <<"iss", c.appId>> >>
        header == << <<"alg", Str("RS256")>>, <<"typ", Str("JWT")>> >>
        encodedHeader == toBase64UrlJson(header)
        encodedPayload == toBase64UrlJson(payload)
        signingInput == encodedHeader \o "." \o encodedPayload
        signature == RsaSha256Sign(signingInput, c.privateKey.s)
    IN  signingInput \o "." \o signature

\* jwt.split('.')
JwtSegments(jwt) ==
    LET d1 == IndexOf(jwt, ".", 1)
        d2 == IF d1 = 0 THEN 0 ELSE IndexOf(jwt, ".", d1 + 1)
    IN  IF d1 = 0 THEN <<jwt>>
        ELSE IF d2 = 0 THEN <<SubSeq(jwt, 1, d1 - 1), SubSeq(jwt, d1 + 1, Len(jwt))>>
        ELSE <<SubSeq(jwt, 1, d1 - 1), SubSeq(jwt, d1 + 1, d2 - 1),
               SubSeq(jwt, d2 + 1, Len(jwt))>>

\* JSON.parse(Buffer.from(segment, 'base64url').toString('utf-8'))[key]
JwtClaim(jwt, key) ==
    JsonMember(BufferToString(Base64UrlDecode(JwtSegments(jwt)[2])), key)

JwtHeader(jwt, key) ==
    JsonMember(BufferToString(Base64UrlDecode(JwtSegments(jwt)[1])), key)

-----------------------------------------------------------------------------
(* src/src/utils.ts: throwGitHubApiError; the transport's responses *)

EmptyResponseBody == "(empty response body)"

\* What `await this.fetcher(url, init)` does: it throws (rejects) with
\* `message`, or yields a Response whose body reads as `text` and parses to
\* the object `json`.
FetchThrows(message) ==
    [threw |-> TRUE, message |-> message, status |-> 0, statusText |-> "",
     text |-> "", json |-> [id |-> Undef, token |-> Undef]]

FetchResponse(status, statusText, text, json) ==
    [threw |-> FALSE, message |-> "", status |-> status, statusText |-> statusText,
     text |-> text, json |-> json]

\* response.ok
ResponseOk(response) == response.status >= 200 /\ response.status <= 299

\* The error without the status text.
throwGitHubApiError_NoStatusText(response, context) ==
    LET responseBodyRaw == response.text
        responseBody == IF Len(Trim(responseBodyRaw)) > 0 THEN responseBodyRaw
                        ELSE EmptyResponseBody
    IN  Throw(context \o " (" \o ToString(response.status) \o "): " \o responseBody)

throwGitHubApiError(response, context) ==
    LET responseBodyRaw == response.text
        responseBody == IF Len(Trim(responseBodyRaw)) > 0 THEN responseBodyRaw
                        ELSE EmptyResponseBody
    IN  Throw(context \o " (" \o ToString(response.status) \o " "
              \o response.statusText \o "): " \o responseBody)

-----------------------------------------------------------------------------
(* src/src/core.ts: resolveInstallationId and createAccessToken.  Each     *)
(* invocation is a record: its arguments, its locals, the requests it has  *)
(* handed to the transport, the responses it has received, and how it      *)
(* settled.  pc is "lookup" or "token" while it awaits the transport.      *)

MissingTargetMessage ==
    "Missing repository target. Provide both 'owner' and 'repo' in the constructor or method call."

MissingIdMessage == "GitHub response did not include an installation id."

MissingTokenMessage == "GitHub response did not include an installation token."

NoArgs == [owner |-> Undef, repo |-> Undef, installationId |-> Undef]

IdleOp ==
    [method |-> "none", static |-> FALSE, pc |-> "idle", args |-> NoArgs, startedMs |-> 0,
     owner |-> Undef, repo |-> Undef, installationId |-> Undef,
     requests |-> <<>>, responses |-> <<>>, value |-> Undef, error |-> ""]

Invoke(method, args, ms) ==
    [IdleOp EXCEPT !.method = method, !.pc = "running", !.args = args, !.startedMs = ms]

Fulfil(op, v) == [op EXCEPT !.pc = "returned", !.value = v]

Reject(op, m) == [op EXCEPT !.pc = "threw", !.error = m]

LookupContext(_owner, _repo) ==
    "Failed to read installation for " \o TemplateString(_owner) \o "/"
    \o TemplateString(_repo)

TokenContext(_installationId) ==
    "Failed to create installation access token for installation "
    \o TemplateString(_installationId)

LookupUrl(c, _owner, _repo) ==
    c.apiBaseUrl.s \o "/repos/" \o TemplateString(_owner) \o "/"
    \o TemplateString(_repo) \o "/installation"

TokenUrl(c, _installationId) ==
    c.apiBaseUrl.s \o "/app/installations/" \o TemplateString(_installationId)
    \o "/access_tokens"

LookupRequest(c, _owner, _repo, ms) ==
    [method |-> "GET",
     url |-> LookupUrl(c, _owner, _repo),
     accept |-> "application/vnd.github+json",
     authorization |-> "Bearer " \o createJwt(c, ms),
     apiVersion |-> "2022-11-28",
     contentType |-> "",
     body |-> ""]

\* The body is JSON.stringify({permissions, repositories, repository_ids})
\* of a call that passes none of the three.
TokenRequest(c, _installationId, ms) ==
    [method |-> "POST",
     url |-> TokenUrl(c, _installationId),
     accept |-> "application/vnd.github+json",
     authorization |-> "Bearer " \o createJwt(c, ms),
     apiVersion |-> "2022-11-28",
     contentType |-> "application/json",
     body |-> "{}"]

\* resolveInstallationId that gives up only when both fields are missing.
resolveInstallationIdBegin_BothMissing(op, c, owner, repo, ms) ==
    LET _owner == Coalesce(owner, c.owner)
        _repo == Coalesce(repo, c.repo)
    IN  IF ~Truthy(_owner) /\ ~Truthy(_repo) THEN Reject(op, MissingTargetMessage)
        ELSE [op EXCEPT !.pc = "lookup", !.owner = _owner, !.repo = _repo,
                        !.requests = Append(@, LookupRequest(c, _owner, _repo, ms))]

\* resolveInstallationId that takes the default target only when the call
\* names neither field.
resolveInstallationIdBegin_WholeTarget(op, c, owner, repo, ms) ==
    LET named == owner # Undef \/ repo # Undef
        _owner == IF named THEN owner ELSE c.owner
        _repo == IF named THEN repo ELSE c.repo
    IN  IF ~Truthy(_owner) \/ ~Truthy(_repo) THEN Reject(op, MissingTargetMessage)
        ELSE [op EXCEPT !.pc = "lookup", !.owner = _owner, !.repo = _repo,
                        !.requests = Append(@, LookupRequest(c, _owner, _repo, ms))]

\* resolveInstallationId up to its `await this.fetcher(...)`
resolveInstallationIdBegin(op, c, owner, repo, ms) ==
    LET _owner == Coalesce(owner, c.owner)
        _repo == Coalesce(repo, c.repo)
    IN  IF ~Truthy(_owner) \/ ~Truthy(_repo) THEN Reject(op, MissingTargetMessage)
        ELSE [op EXCEPT !.pc = "lookup", !.owner = _owner, !.repo = _repo,
                        !.requests = Append(@, LookupRequest(c, _owner, _repo, ms))]

\* resolveInstallationId without the try/catch around the fetch.
resolveInstallationIdSettle_NoCatch(_owner, _repo, response) ==
    IF response.threw THEN Throw(response.message)
    ELSE IF ~ResponseOk(response)
         THEN throwGitHubApiError(response, LookupContext(_owner, _repo))
    ELSE IF ~Truthy(response.json.id) THEN Throw(MissingIdMessage)
    ELSE Return(response.json.id)

\* resolveInstallationId that reads the body without looking at response.ok.
resolveInstallationIdSettle_IgnoresStatus(_owner, _repo, response) ==
    IF response.threw
    THEN Throw(LookupContext(_owner, _repo) \o ": " \o response.message)
    ELSE Return(response.json.id)

\* resolveInstallationId from the settlement of the fetch to its own
\* settlement
resolveInstallationIdSettle(_owner, _repo, response) ==
    IF response.threw
    THEN Throw(LookupContext(_owner, _repo) \o ": " \o response.message)
    ELSE IF ~ResponseOk(response)
         THEN throwGitHubApiError(response, LookupContext(_owner, _repo))
    ELSE IF ~Truthy(response.json.id) THEN Throw(MissingIdMessage)
    ELSE Return(response.json.id)

\* createAccessToken from the point where _installationId is known up to
\* its `await this.fetcher(...)`
createAccessTokenPost(op, c, _installationId, ms) ==
    [op EXCEPT !.pc = "token", !.installationId = _installationId,
               !.requests = Append(@, TokenRequest(c, _installationId, ms))]

\* createAccessToken that posts without resolving a missing installation id.
createAccessTokenBegin_NoLookup(op, c, owner, repo, installationId, ms) ==
    LET parsed == parseOptionalInstallationId(Coalesce(installationId, c.installationId))
    IN  IF parsed.threw THEN Reject(op, parsed.message)
        ELSE createAccessTokenPost(op, c, parsed.value, ms)

\* createAccessToken that wants a repository target before it looks at the
\* installation id.
createAccessTokenBegin_TargetFirst(op, c, owner, repo, installationId, ms) ==
    LET parsed == parseOptionalInstallationId(Coalesce(installationId, c.installationId))
        _owner == Coalesce(owner, c.owner)
        _repo == Coalesce(repo, c.repo)
    IN  IF ~Truthy(_owner) \/ ~Truthy(_repo) THEN Reject(op, MissingTargetMessage)
        ELSE IF parsed.threw THEN Reject(op, parsed.message)
        ELSE IF ~Truthy(parsed.value)
             THEN resolveInstallationIdBegin(op, c, _owner, _repo, ms)
        ELSE createAccessTokenPost(op, c, parsed.value, ms)

\* createAccessToken that prefers the client's default installation id.
createAccessTokenBegin_DefaultFirst(op, c, owner, repo, installationId, ms) ==
    LET parsed == parseOptionalInstallationId(Coalesce(c.installationId, installationId))
        _owner == Coalesce(owner, c.owner)
        _repo == Coalesce(repo, c.repo)
    IN  IF parsed.threw THEN Reject(op, parsed.message)
        ELSE IF ~Truthy(parsed.value)
             THEN IF ~Truthy(_owner) \/ ~Truthy(_repo)
                  THEN Reject(op, MissingTargetMessage)
                  ELSE resolveInstallationIdBegin(op, c, _owner, _repo, ms)
        ELSE createAccessTokenPost(op, c, parsed.value, ms)

\* createAccessToken up to its first await
createAccessTokenBegin(op, c, owner, repo, installationId, ms) ==
    LET parsed == parseOptionalInstallationId(Coalesce(installationId, c.installationId))
        _owner == Coalesce(owner, c.owner)
        _repo == Coalesce(repo, c.repo)
    IN  IF parsed.threw THEN Reject(op, parsed.message)
        ELSE IF ~Truthy(parsed.value)
             THEN IF ~Truthy(_owner) \/ ~Truthy(_repo)
                  THEN Reject(op, MissingTargetMessage)
                  ELSE resolveInstallationIdBegin(op, c, _owner, _repo, ms)
        ELSE createAccessTokenPost(op, c, parsed.value, ms)

\* createAccessToken from the settlement of the POST to its own settlement
createAccessTokenSettle(_installationId, response) ==
    IF response.threw
    THEN Throw(TokenContext(_installationId) \o ": " \o response.message)
    ELSE IF ~ResponseOk(response)
         THEN throwGitHubApiError(response, TokenContext(_installationId))
    ELSE IF ~Truthy(response.json.token) THEN Throw(MissingTokenMessage)
    ELSE Return(response.json.token)

-----------------------------------------------------------------------------
(* Inputs *)

CallerIds == {1, 2}

AppIdOptions == {Num(123), Str("nope")}

PrivateKeyOptions == {"-----BEGIN KEY-----\\nMIIB\\n-----END KEY-----", "  "}

OwnerOptions == {Undef, Str("octo"), Str(" ")}

RepoOptions == {Undef, Str("hello")}

InstallationIdOptions == {Undef, Num(42), Num(-1)}

JwtExpiresOptions ==
    {Undef, Num(MaxJwtExpiresInSeconds), Num(MaxJwtExpiresInSeconds + 1),
     Num(2 * MaxJwtExpiresInSeconds), Num(0), Frac}

ApiBaseUrlOptions == {Undef, Str("https://ghe.example.com/api/v3/")}

FetchOptions == {Undef, Str("override")}

OptionsObjects ==
    [appId : AppIdOptions, privateKey : PrivateKeyOptions, owner : OwnerOptions,
     repo : RepoOptions, installationId : InstallationIdOptions,
     jwtExpiresInSeconds : JwtExpiresOptions, apiBaseUrl : ApiBaseUrlOptions,
     fetch : FetchOptions]

NoOptions ==
    [appId |-> Undef, privateKey |-> "", owner |-> Undef, repo |-> Undef,
     installationId |-> Undef, jwtExpiresInSeconds |-> Undef, apiBaseUrl |-> Undef,
     fetch |-> Undef]

OwnerArgs == {Undef, Str("acme"), Str("a/b?c"), Str(""), Str("  ")}

RepoArgs == {Undef, Str("app"), Str("")}

InstallationIdArgs == {Undef, Num(55), Str("7"), Num(0)}

LookupResponses ==
    {FetchThrows("socket hang up")}
    \cup {FetchResponse(404, "Not Found", text, [id |-> Undef, token |-> Undef]) :
            text \in {"No install", " \n"}}
    \cup {FetchResponse(200, "OK", "", [id |-> id, token |-> Undef]) :
            id \in {Undef, Num(987), Str("abc"), Num(0)}}

TokenResponses ==
    {FetchThrows("connect ETIMEDOUT")}
    \cup {FetchResponse(403, "Forbidden", text, [id |-> Undef, token |-> Undef]) :
            text \in {"No access", ""}}
    \cup {FetchResponse(201, "Created", "", [id |-> Undef, token |-> token]) :
            token \in {Undef, Str("token-xyz"), Str("")}}

\* A transport that reports the request it could not deliver, and a server
\* that answers with the credentials it refuses.
LookupEchoes(request) ==
    {FetchThrows("request failed: Authorization: " \o request.authorization)}

TokenEchoes(request) ==
    {FetchResponse(401, "Unauthorized", "Bad credentials: " \o request.authorization,
                   [id |-> Undef, token |-> Undef])}

ClockStartMs == 1000500

ClockStepMs == 700

MaxTicks == 1

-----------------------------------------------------------------------------
(* The state machine *)

Init ==
    /\ globalFetch \in BOOLEAN
    /\ options = NoOptions
    /\ client = NoClient
    /\ clockMs = ClockStartMs
    /\ callers = {1}
    /\ ops = [c \in CallerIds |-> IdleOp]

Awaiting(c) == ops[c].pc \in {"lookup", "token"}

\* A caller makes one call at a time: it invokes a method when it holds no
\* unconsumed outcome.
CanInvoke(c) == client.status = "constructed" /\ c \in callers /\ ops[c].pc = "idle"

\* new GitHubAppAuth(o)
Constructor(o) ==
    /\ client.status = "none"
    /\ options' = o
    /\ client' = Construct(o, globalFetch)
    /\ UNCHANGED <<globalFetch, clockMs, callers, ops>>

\* auth.createJwt()
CreateJwt(c) ==
    /\ CanInvoke(c)
    /\ ops' = [ops EXCEPT ![c] =
                  Fulfil(Invoke("createJwt", NoArgs, clockMs), Str(createJwt(client, clockMs)))]
    /\ UNCHANGED <<globalFetch, options, client, clockMs, callers>>

\* auth.resolveInstallationId({owner, repo}), to its first await
ResolveInstallationId(c, owner, repo) ==
    /\ CanInvoke(c)
    /\ ops' = [ops EXCEPT ![c] =
                  resolveInstallationIdBegin(
                      Invoke("resolveInstallationId",
                             [owner |-> owner, repo |-> repo, installationId |-> Undef],
                             clockMs),
                      client, owner, repo, clockMs)]
    /\ UNCHANGED <<globalFetch, options, client, clockMs, callers>>

\* auth.createAccessToken({owner, repo, installationId}), to its first await
CreateAccessToken(c, owner, repo, installationId) ==
    /\ CanInvoke(c)
    /\ ops' = [ops EXCEPT ![c] =
                  createAccessTokenBegin(
                      Invoke("createAccessToken",
                             [owner |-> owner, repo |-> repo,
                              installationId |-> installationId],
                             clockMs),
                      client, owner, repo, installationId, clockMs)]
    /\ UNCHANGED <<globalFetch, options, client, clockMs, callers>>

\* createAccessToken that sends the POST with the JWT of its lookup.
LookupSettles_ReusesJwt(c, response) ==
    /\ ops[c].pc = "lookup"
    /\ LET op == [ops[c] EXCEPT !.responses = Append(@, response)]
           outcome == resolveInstallationIdSettle(op.owner, op.repo, response)
           post == createAccessTokenPost(op, client, outcome.value, clockMs)
       IN  ops' = [ops EXCEPT ![c] =
                      IF outcome.threw THEN Reject(op, outcome.message)
                      ELSE IF op.method = "resolveInstallationId"
                           THEN Fulfil(op, outcome.value)
                      ELSE [post EXCEPT !.requests[2].authorization =
                                            op.requests[1].authorization]]
    /\ UNCHANGED <<globalFetch, options, client, clockMs, callers>>

\* resolveInstallationId that remembers the id it resolved as the client's
\* default.
LookupSettles_CachesId(c, response) ==
    /\ ops[c].pc = "lookup"
    /\ LET op == [ops[c] EXCEPT !.responses = Append(@, response)]
           outcome == resolveInstallationIdSettle(op.owner, op.repo, response)
       IN  /\ ops' = [ops EXCEPT ![c] =
                         IF outcome.threw THEN Reject(op, outcome.message)
                         ELSE IF op.method = "resolveInstallationId"
                              THEN Fulfil(op, outcome.value)
                         ELSE createAccessTokenPost(op, client, outcome.value, clockMs)]
           /\ client' = IF outcome.threw THEN client
                        ELSE [client EXCEPT !.installationId = outcome.value]
    /\ UNCHANGED <<globalFetch, options, clockMs, callers>>

\* The fetch of the installation lookup settles; resolveInstallationId
\* settles, and a createAccessToken that awaited it goes on to its POST.
LookupSettles(c, response) ==
    /\ ops[c].pc = "lookup"
    /\ LET op == [ops[c] EXCEPT !.responses = Append(@, response)]
           outcome == resolveInstallationIdSettle(op.owner, op.repo, response)
       IN  ops' = [ops EXCEPT ![c] =
                      IF outcome.threw THEN Reject(op, outcome.message)
                      ELSE IF op.method = "resolveInstallationId"
                           THEN Fulfil(op, outcome.value)
                      ELSE createAccessTokenPost(op, client, outcome.value, clockMs)]
    /\ UNCHANGED <<globalFetch, options, client, clockMs, callers>>

\* The fetch of the access-token POST settles; createAccessToken settles.
TokenSettles(c, response) ==
    /\ ops[c].pc = "token"
    /\ LET op == [ops[c] EXCEPT !.responses = Append(@, response)]
           outcome == createAccessTokenSettle(op.installationId, response)
       IN  ops' = [ops EXCEPT ![c] =
                      IF outcome.threw THEN Reject(op, outcome.message)
                      ELSE Fulfil(op, outcome.value)]
    /\ UNCHANGED <<globalFetch, options, client, clockMs, callers>>

\* The static helper that hands only the app's identity and the transport to
\* the constructor.
StaticCreateAccessToken_IdentityOnly(c, o) ==
    /\ client.status = "none" /\ c \in callers /\ ops[c].pc = "idle"
    /\ options' = o
    /\ client' = Construct([NoOptions EXCEPT !.appId = o.appId,
                                             !.privateKey = o.privateKey,
                                             !.fetch = o.fetch], globalFetch)
    /\ LET call == [Invoke("createAccessToken",
                           [owner |-> o.owner, repo |-> o.repo,
                            installationId |-> o.installationId],
                           clockMs) EXCEPT !.static = TRUE]
       IN  ops' = [ops EXCEPT ![c] =
                      IF client'.status = "threw" THEN Reject(call, client'.error)
                      ELSE createAccessTokenBegin(call, client', o.owner, o.repo,
                                                  o.installationId, clockMs)]
    /\ UNCHANGED <<globalFetch, clockMs, callers>>

\* GitHubAppAuth.createAccessToken(o), the static helper, to its first await:
\* it constructs a client from `o` and calls createAccessToken(o) on it.
StaticCreateAccessToken(c, o) ==
    /\ client.status = "none" /\ c \in callers /\ ops[c].pc = "idle"
    /\ options' = o
    /\ client' = Construct(o, globalFetch)
    /\ LET call == [Invoke("createAccessToken",
                           [owner |-> o.owner, repo |-> o.repo,
                            installationId |-> o.installationId],
                           clockMs) EXCEPT !.static = TRUE]
       IN  ops' = [ops EXCEPT ![c] =
                      IF client'.status = "threw" THEN Reject(call, client'.error)
                      ELSE createAccessTokenBegin(call, client', o.owner, o.repo,
                                                  o.installationId, clockMs)]
    /\ UNCHANGED <<globalFetch, clockMs, callers>>

\* The caller takes the value returned (or the error thrown) and is free to
\* make its next call.
CallerContinues(c) ==
    /\ ops[c].pc \in {"returned", "threw"}
    /\ ops' = [ops EXCEPT ![c] = IdleOp]
    /\ UNCHANGED <<globalFetch, options, client, clockMs, callers>>

\* Time passes.
Tick ==
    /\ clockMs < ClockStartMs + MaxTicks * ClockStepMs
    /\ clockMs' = clockMs + ClockStepMs
    /\ UNCHANGED <<globalFetch, options, client, callers, ops>>

Next ==
    \/ client.status = "none" /\ \E o \in OptionsObjects : Constructor(o)
    \/ \E c \in CallerIds : CreateJwt(c)
    \/ \E c \in CallerIds, owner \in OwnerArgs, repo \in RepoArgs :
           ResolveInstallationId(c, owner, repo)
    \/ \E c \in CallerIds, owner \in OwnerArgs, repo \in RepoArgs,
          installationId \in InstallationIdArgs :
           CreateAccessToken(c, owner, repo, installationId)
    \/ client.status = "none"
       /\ \E c \in callers, o \in OptionsObjects : StaticCreateAccessToken(c, o)
    \/ \E c \in CallerIds :
           /\ ops[c].pc = "lookup"
           /\ \E response \in LookupResponses \cup LookupEchoes(ops[c].requests[1]) :
                  LookupSettles(c, response)
    \/ \E c \in CallerIds :
           /\ ops[c].pc = "token"
           /\ \E response \in TokenResponses
                               \cup TokenEchoes(ops[c].requests[Len(ops[c].requests)]) :
                  TokenSettles(c, response)
    \/ \E c \in CallerIds : CallerContinues(c)
    \/ Tick

Spec == Init /\ [][Next]_vars

-----------------------------------------------------------------------------
(* Properties *)

\* The calls made on the constructed client
Invocations == IF client.status = "constructed" THEN {ops[c] : c \in CallerIds} ELSE {}

\* The JWT of a request's `Authorization: Bearer <jwt>` header
BearerOf(request) == SubSeq(request.authorization, 8, Len(request.authorization))

\* Every JWT createJwt has returned to a caller or put into a request
MintedJwts ==
    {op.value.s : op \in {o \in Invocations : o.method = "createJwt" /\ o.pc = "returned"}}
    \cup UNION {{BearerOf(op.requests[i]) : i \in 1..Len(op.requests)} : op \in Invocations}

Lifetime(jwt) == JwtClaim(jwt, "exp").n - JwtClaim(jwt, "iat").n

\* The repository target a call works on: its argument, else the default
TargetOwner(op) == Coalesce(op.args.owner, client.owner)

TargetRepo(op) == Coalesce(op.args.repo, client.repo)

ExpectedLookupUrl(op) ==
    client.apiBaseUrl.s \o "/repos/" \o TargetOwner(op).s \o "/" \o TargetRepo(op).s
    \o "/installation"

ExpectedTokenUrl(idText) ==
    client.apiBaseUrl.s \o "/app/installations/" \o idText \o "/access_tokens"

\* The installation id an argument or option denotes, as decimal text
IdText(v) ==
    LET n == IF v.t = "string" THEN NumberOf(v.s) ELSE v
    IN  IF n.t = "number" THEN ToString(n.n) ELSE "NaN"

ValidId(v) ==
    LET n == IF v.t = "string" THEN NumberOf(v.s) ELSE v
    IN  n.t = "number" /\ n.n > 0

C2_LookupThenToken ==
    \A op \in Invocations :
        /\ op.method = "createAccessToken"
        /\ op.args.installationId = Undef /\ client.installationId = Undef
        /\ Truthy(TargetOwner(op)) /\ Truthy(TargetRepo(op))
        => /\ Len(op.requests) \in {1, 2}
           /\ op.requests[1].method = "GET"
           /\ op.requests[1].url = ExpectedLookupUrl(op)
           /\ Len(op.requests) = 2
              => /\ Len(op.responses) >= 1
                 /\ ResponseOk(op.responses[1])
                 /\ op.requests[2].method = "POST"
                 /\ op.requests[2].url =
                        ExpectedTokenUrl(TemplateString(op.responses[1].json.id))
           /\ op.pc = "returned" => Len(op.requests) = 2 /\ Len(op.responses) = 2

C2_Witness ==
    \E op \in Invocations :
        /\ op.method = "createAccessToken" /\ op.pc = "returned"
        /\ op.args.installationId = Undef /\ client.installationId = Undef
        /\ op.value = Str("token-xyz")
        /\ op.requests[2].url = "https://api.github.com/app/installations/987/access_tokens"

\* The messages the constructor and the methods throw for a bad argument
InvalidArgumentMessages ==
    {NonEmptyStringMessage(f) : f \in {"privateKey", "owner", "repo", "apiBaseUrl"}}
    \cup {PositiveIntegerMessage(f) : f \in {"appId", "installationId"}}
    \cup {JwtExpiresPositiveMessage, JwtExpiresCeilingMessage, OwnerRepoPairMessage}

\* C3 (as claimed): whenever an installation id is available, as the call's
\* installationId argument or as the client's default installationId,
\* createAccessToken sends exactly one request, the POST to
\* <apiBaseUrl>/app/installations/<id>/access_tokens.
C3_IdAvailableOnePost ==
    \A op \in Invocations :
        /\ op.method = "createAccessToken"
        /\ ValidId(op.args.installationId) \/ client.installationId # Undef
        => /\ Len(op.requests) = 1
           /\ op.requests[1].method = "POST"
           /\ op.requests[1].url =
                  ExpectedTokenUrl(IdText(Coalesce(op.args.installationId,
                                                   client.installationId)))

\* C3 (amended): when the installationId argument is a positive integer, or
\* is not given while the client has a default installationId,
\* createAccessToken sends exactly one request, the POST to
\* <apiBaseUrl>/app/installations/<id>/access_tokens, and never the lookup,
\* whatever owner/repo are configured or passed; an installationId argument
\* that is not a positive integer fails the call with no request sent, also
\* when the client has a default installationId.
C3_ValidIdOnePost ==
    \A op \in Invocations :
        op.method = "createAccessToken"
        => /\ \/ ValidId(op.args.installationId)
              \/ op.args.installationId = Undef /\ client.installationId # Undef
              => /\ Len(op.requests) = 1
                 /\ op.requests[1].method = "POST"
                 /\ op.requests[1].url =
                        ExpectedTokenUrl(IdText(Coalesce(op.args.installationId,
                                                         client.installationId)))
           /\ op.args.installationId # Undef /\ ~ValidId(op.args.installationId)
              => /\ op.requests = <<>>
                 /\ op.pc = "threw"
                 /\ op.error \in InvalidArgumentMessages

C3_Witness ==
    \E op \in Invocations :
        /\ op.method = "createAccessToken" /\ op.pc = "returned"
        /\ op.args = NoArgs
        /\ client.installationId = Num(42) /\ client.owner = Undef
        /\ Len(op.requests) = 1
        /\ op.requests[1].url = "https://api.github.com/app/installations/42/access_tokens"

\* C4: the id in the URL of the token POST is the installationId argument
\* when one is given, else the client's default installationId when one is
\* configured, else the id the lookup returned for the call's owner/repo
\* (each argument, else the client's default).
C4_IdPrecedence ==
    \A op \in Invocations :
        \A i \in 1..Len(op.requests) :
            op.method = "createAccessToken" /\ op.requests[i].method = "POST"
            => IF op.args.installationId # Undef
               THEN i = 1 /\ op.requests[i].url =
                                 ExpectedTokenUrl(IdText(op.args.installationId))
               ELSE IF client.installationId # Undef
               THEN i = 1 /\ op.requests[i].url =
                                 ExpectedTokenUrl(IdText(client.installationId))
               ELSE /\ i = 2
                    /\ op.requests[1].url = ExpectedLookupUrl(op)
                    /\ op.requests[i].url =
                           ExpectedTokenUrl(TemplateString(op.responses[1].json.id))

C4_Witness ==
    \E op \in Invocations :
        /\ op.method = "createAccessToken"
        /\ op.args.installationId = Num(55)
        /\ client.installationId = Num(42)
        /\ Truthy(TargetOwner(op)) /\ Truthy(TargetRepo(op))
        /\ Len(op.requests) = 1
        /\ Includes(op.requests[1].url, "/app/installations/55/access_tokens")

\* C5: resolveInstallationId fails with the "Missing repository target"
\* error when owner or repo is missing after the fallback to the client's
\* defaults, and so does createAccessToken when it has no installation id
\* (argument or default) either; the call has then sent no request.
C5_MissingTargetBeforeTransport ==
    \A op \in Invocations :
        /\ \/ op.method = "resolveInstallationId"
           \/ /\ op.method = "createAccessToken"
              /\ op.args.installationId = Undef /\ client.installationId = Undef
        /\ ~Truthy(TargetOwner(op)) \/ ~Truthy(TargetRepo(op))
        => /\ op.pc = "threw"
           /\ op.error = MissingTargetMessage
           /\ StartsWith(op.error, "Missing repository target")
           /\ op.requests = <<>>

C5_Witness ==
    \E op \in Invocations :
        /\ op.method = "resolveInstallationId"
        /\ op.args.owner = Str("acme") /\ op.args.repo = Undef /\ client.repo = Undef
        /\ op.pc = "threw" /\ op.error = MissingTargetMessage
        /\ op.requests = <<>>

\* C6 (as claimed): resolveInstallationId returns only a numeric id and
\* createAccessToken only a non-empty token string.
C6_OnlyWellFormedResults ==
    \A op \in Invocations :
        op.pc = "returned"
        => /\ op.method = "resolveInstallationId" => op.value.t = "number"
           /\ op.method = "createAccessToken"
              => op.value.t = "string" /\ op.value.s # ""

LastResponse(op) == op.responses[Len(op.responses)]

LastRequest(op) == op.requests[Len(op.requests)]

\* The context the messages of a failed request start with
ExpectedContext(op) ==
    IF LastRequest(op).method = "GET"
    THEN "Failed to read installation for " \o TargetOwner(op).s \o "/" \o TargetRepo(op).s
    ELSE "Failed to create installation access token for installation "
         \o TemplateString(op.installationId)

AnsweredNon2xx(op) ==
    /\ Len(op.responses) > 0 /\ Len(op.responses) = Len(op.requests)
    /\ ~LastResponse(op).threw
    /\ ~(LastResponse(op).status \in 200..299)

\* C7 (as claimed): after a non-2xx response the call rejects, returns no
\* value, and its message carries the context, the status, the status text
\* and the raw response body.
C7_ApiErrorCarriesRawBody ==
    \A op \in Invocations :
        AnsweredNon2xx(op)
        => /\ op.pc = "threw" /\ op.value = Undef
           /\ StartsWith(op.error, ExpectedContext(op))
           /\ Includes(op.error, ToString(LastResponse(op).status))
           /\ Includes(op.error, LastResponse(op).statusText)
           /\ Includes(op.error, LastResponse(op).text)

\* C7 (amended): after a non-2xx response the call rejects, returns no
\* value, and its message is "<context> (<status> <status text>): <body>",
\* where <body> is the raw response body, or "(empty response body)" when
\* the raw body is empty or only whitespace.
C7_ApiErrorMessage ==
    \A op \in Invocations :
        AnsweredNon2xx(op)
        => /\ op.pc = "threw" /\ op.value = Undef
           /\ op.error =
                  ExpectedContext(op) \o " (" \o ToString(LastResponse(op).status) \o " "
                  \o LastResponse(op).statusText \o "): "
                  \o (IF Trim(LastResponse(op).text) = "" THEN "(empty response body)"
                      ELSE LastResponse(op).text)

C7_Witness ==
    \E op \in Invocations :
        /\ op.method = "resolveInstallationId" /\ op.pc = "threw"
        /\ op.error = "Failed to read installation for octo/hello (404 Not Found): No install"

\* C8: when the fetch itself throws, the call rejects, returns no value, and
\* its message is "Failed to read installation for <owner>/<repo>: <message
\* thrown>" for the lookup and "Failed to create installation access token
\* for installation <id>: <message thrown>" for the POST.
C8_TransportErrorWrapped ==
    \A op \in Invocations :
        /\ Len(op.responses) > 0 /\ Len(op.responses) = Len(op.requests)
        /\ LastResponse(op).threw
        => /\ op.pc = "threw" /\ op.value = Undef
           /\ op.error = ExpectedContext(op) \o ": " \o LastResponse(op).message

C8_Witness ==
    \E op \in Invocations :
        /\ op.method = "createAccessToken" /\ op.pc = "threw"
        /\ op.error =
               "Failed to create installation access token for installation 55: connect ETIMEDOUT"

\* A response that makes the call fail: the fetch threw, the status is not
\* 2xx, or the 2xx body lacks the field the call reads.
Failing(request, response) ==
    \/ response.threw
    \/ ~(response.status \in 200..299)
    \/ request.method = "GET" /\ ~Truthy(response.json.id)
    \/ request.method = "POST" /\ ~Truthy(response.json.token)

\* C9: a call requests each endpoint at most once (resolveInstallationId
\* never the token endpoint), has at most one request outstanding, and after
\* a failing response it has rejected and sent nothing more.
C9_NoRetry ==
    \A op \in Invocations :
        /\ Cardinality({i \in 1..Len(op.requests) : op.requests[i].method = "GET"}) <= 1
        /\ Cardinality({i \in 1..Len(op.requests) : op.requests[i].method = "POST"}) <= 1
        /\ op.method = "resolveInstallationId"
           => \A i \in 1..Len(op.requests) : op.requests[i].method = "GET"
        /\ Len(op.responses) <= Len(op.requests)
        /\ Len(op.requests) <= Len(op.responses) + 1
        /\ \A i \in 1..Len(op.responses) :
               Failing(op.requests[i], op.responses[i])
               => Len(op.requests) = i /\ op.pc = "threw"

C9_Witness ==
    \E op \in Invocations :
        /\ op.method = "createAccessToken" /\ op.pc = "threw"
        /\ Len(op.requests) = 1 /\ op.requests[1].method = "GET"
        /\ Len(op.responses) = 1 /\ op.responses[1].status = 404

\* The options other than owner and repo are ones the constructor accepts.
OtherOptionsValid ==
    /\ ~parsePositiveInteger(options.appId, "appId").threw
    /\ ~normalizePrivateKey(options.privateKey).threw
    /\ ~parseOptionalInstallationId(options.installationId).threw
    /\ ~parseOptionalJwtExpiresInSeconds(options.jwtExpiresInSeconds).threw
    /\ ~normalizeOptionalNonEmptyString(options.apiBaseUrl, "apiBaseUrl").threw

\* C10 (as claimed): construction fails with an InvalidArgument error when
\* exactly one of owner and repo is given, and succeeds, the other options
\* being valid and a transport at hand, when neither or both are given;
\* after a failed construction no JWT has been minted and no request sent.
C10_OwnerRepoPairing ==
    client.status # "none"
    => /\ (options.owner = Undef) # (options.repo = Undef)
          => client.status = "threw" /\ client.error \in InvalidArgumentMessages
       /\ /\ (options.owner = Undef) = (options.repo = Undef)
          /\ options.owner # Undef => Trim(options.owner.s) # ""
          /\ OtherOptionsValid
          /\ options.fetch # Undef \/ globalFetch
          => client.status = "constructed"
       /\ client.status = "threw"
          => \A c \in CallerIds : ops[c].requests = <<>> /\ ops[c].value = Undef

\* The options other than jwtExpiresInSeconds are ones the constructor
\* accepts.
OptionsBesideJwtExpiresValid ==
    /\ ~parsePositiveInteger(options.appId, "appId").threw
    /\ ~normalizePrivateKey(options.privateKey).threw
    /\ ~normalizeOptionalNonEmptyString(options.owner, "owner").threw
    /\ ~normalizeOptionalNonEmptyString(options.repo, "repo").threw
    /\ (options.owner = Undef) = (options.repo = Undef)
    /\ ~parseOptionalInstallationId(options.installationId).threw
    /\ ~normalizeOptionalNonEmptyString(options.apiBaseUrl, "apiBaseUrl").threw

JwtExpiresMessages == {JwtExpiresPositiveMessage, JwtExpiresCeilingMessage}

ReturnedJwts ==
    {<<op.value.s, op.startedMs \div 1000>> :
        op \in {o \in Invocations : o.method = "createJwt" /\ o.pc = "returned"}}

Dots(s) == Cardinality({i \in 1..Len(s) : Char(s, i) = "."})

WellFormedJwt(jwt) ==
    /\ Dots(jwt) = 2
    /\ \A i \in 1..3 : JwtSegments(jwt)[i] # ""
    /\ JwtHeader(jwt, "alg") = Str("RS256")
    /\ JwtHeader(jwt, "typ") = Str("JWT")
    /\ JwtClaim(jwt, "iss") = client.appId

\* C12 (as claimed): the JWT createJwt() returns at clock second now has
\* three dot-separated segments, the header {alg: 'RS256', typ: 'JWT'},
\* iss = appId, iat = now - 60 and exp - iat = w, the client's window.
C12_ExpMinusIatIsWindow ==
    \A r \in ReturnedJwts :
        /\ WellFormedJwt(r[1])
        /\ JwtClaim(r[1], "iat") = Num(r[2] - 60)
        /\ Lifetime(r[1]) = client.jwtExpiresInSeconds.n

\* C12 (amended): the JWT createJwt() returns at clock second now has three
\* dot-separated segments, the header {alg: 'RS256', typ: 'JWT'},
\* iss = appId, iat = now - 60 and exp = now + w, so that exp - iat = w + 60;
\* w is 540 when jwtExpiresInSeconds is not given.
C12_ExpIsNowPlusWindow ==
    \A r \in ReturnedJwts :
        /\ WellFormedJwt(r[1])
        /\ JwtClaim(r[1], "iat") = Num(r[2] - 60)
        /\ JwtClaim(r[1], "exp") = Num(r[2] + client.jwtExpiresInSeconds.n)
        /\ Lifetime(r[1]) = client.jwtExpiresInSeconds.n + 60
        /\ options.jwtExpiresInSeconds = Undef => client.jwtExpiresInSeconds = Num(540)

C12_Witness ==
    \E r \in ReturnedJwts :
        /\ options.jwtExpiresInSeconds = Undef
        /\ clockMs > ClockStartMs
        /\ JwtClaim(r[1], "iat") = Num(r[2] - 60)
        /\ JwtClaim(r[1], "exp") = Num(r[2] + 540)

\* jwtExpiresInSeconds is absent or a positive integer
WindowGiven ==
    \/ options.jwtExpiresInSeconds = Undef
    \/ options.jwtExpiresInSeconds.t = "number" /\ options.jwtExpiresInSeconds.n > 0

\* The window the options ask for
WindowAsked ==
    IF options.jwtExpiresInSeconds = Undef THEN 540 ELSE options.jwtExpiresInSeconds.n

PayloadAsAsked ==
    \A r \in ReturnedJwts :
        /\ JwtClaim(r[1], "iss") = client.appId
        /\ JwtClaim(r[1], "iat") = Num(r[2] - 60)
        /\ JwtClaim(r[1], "exp") = Num(r[2] + WindowAsked)

UriUnreserved ==
    "ABCDEFGHIJKLMNOPQRSTUVWXYZabcdefghijklmnopqrstuvwxyz0123456789-_.!~*'()"

HexDigit(n) == Char("0123456789ABCDEF", n + 1)

RECURSIVE EncodeURIComponent(_)
EncodeURIComponent(s) ==
    IF s = "" THEN ""
    ELSE LET c == Char(s, 1)
             code == AsciiCode[c]
         IN  (IF Includes(UriUnreserved, c) THEN c
              ELSE "%" \o HexDigit(code \div 16) \o HexDigit(code % 16))
             \o EncodeURIComponent(SubSeq(s, 2, Len(s)))

\* C14 (as claimed): the URL of every installation-lookup GET is
\* <apiBaseUrl>/repos/<encoded owner>/<encoded repo>/installation, owner and
\* repo percent-encoded as path segments.
C14_TargetPercentEncoded ==
    \A op \in Invocations :
        \A i \in 1..Len(op.requests) :
            op.requests[i].method = "GET"
            => op.requests[i].url =
                   client.apiBaseUrl.s \o "/repos/" \o EncodeURIComponent(TargetOwner(op).s)
                   \o "/" \o EncodeURIComponent(TargetRepo(op).s) \o "/installation"

\* Every option is one the constructor's validators accept.
AllOptionsValid ==
    OptionsBesideJwtExpiresValid
    /\ ~parseOptionalJwtExpiresInSeconds(options.jwtExpiresInSeconds).threw

\* C15 (as claimed): with no ambient transport and no fetch option,
\* construction with otherwise valid options succeeds; the missing transport
\* is never reported at construction.
C15_TransportCheckedAtFirstUse ==
    client.status # "none" /\ ~globalFetch /\ options.fetch = Undef
    => /\ client.error # FetchUnavailableMessage
       /\ AllOptionsValid => client.status = "constructed"

\* The installation access tokens the transport hands out
AccessTokens ==
    {r.json.token.s : r \in {x \in TokenResponses : ~x.threw /\ x.json.token.t = "string"}}

\* The request is authorised by a JWT minted at clock time ms.
BearsJwtMintedAt(request, cl, ms) ==
    /\ StartsWith(request.authorization, "Bearer ")
    /\ Dots(BearerOf(request)) = 2
    /\ JwtClaim(BearerOf(request), "iss") = cl.appId
    /\ JwtClaim(BearerOf(request), "iat") = Num((ms \div 1000) - 60)
    /\ JwtClaim(BearerOf(request), "exp") = Num((ms \div 1000) + cl.jwtExpiresInSeconds.n)
    /\ BearerOf(request) \notin AccessTokens

\* C16: whenever a call hands a request to the transport, the request's
\* Authorization header is 'Bearer <jwt>' with a JWT minted at that moment,
\* inside the call and not before the call started: never the JWT of an
\* earlier request (the POST after a lookup carries its own JWT) and never
\* an installation access token.
C16_FreshJwtPerRequest ==
    [][\A c \in CallerIds :
           Len(ops'[c].requests) > Len(ops[c].requests)
           => /\ Len(ops'[c].requests) = Len(ops[c].requests) + 1
              /\ ops'[c].startedMs <= clockMs
              /\ BearsJwtMintedAt(LastRequest(ops'[c]), client', clockMs)]_vars

C16_Witness ==
    \E op \in Invocations :
        /\ op.method = "createAccessToken" /\ Len(op.requests) = 2
        /\ JwtClaim(BearerOf(op.requests[2]), "iat").n
               > JwtClaim(BearerOf(op.requests[1]), "iat").n

\* The clock times of the model
Times == {ClockStartMs + k * ClockStepMs : k \in 0..MaxTicks}

\* The instance createAccessToken on client `cl`, resumed with the response
\* to its lookup at time ms
InstanceAfterLookup(op, cl, response, ms) ==
    LET answered == [op EXCEPT !.responses = Append(@, response)]
        outcome == resolveInstallationIdSettle(op.owner, op.repo, response)
    IN  IF outcome.threw THEN Reject(answered, outcome.message)
        ELSE createAccessTokenPost(answered, cl, outcome.value, ms)

\* ... and resumed with the response to its POST
InstanceAfterToken(op, response) ==
    LET answered == [op EXCEPT !.responses = Append(@, response)]
        outcome == createAccessTokenSettle(op.installationId, response)
    IN  IF outcome.threw THEN Reject(answered, outcome.message)
        ELSE Fulfil(answered, outcome.value)

\* What cl.createAccessToken(args), called at startedMs, has sent and how it
\* stands once the transport has answered with `responses`
InstanceRuns(cl, args, startedMs, responses) ==
    LET begun == createAccessTokenBegin(Invoke("createAccessToken", args, startedMs), cl,
                                        args.owner, args.repo, args.installationId,
                                        startedMs)
    IN  IF Len(responses) = 0 THEN {begun}
        ELSE IF begun.pc = "token"
             THEN IF Len(responses) = 1
                  THEN {InstanceAfterToken(begun, responses[1])} ELSE {}
        ELSE IF begun.pc = "lookup"
             THEN {IF Len(responses) = 1 THEN InstanceAfterLookup(begun, cl, responses[1], ms)
                   ELSE InstanceAfterToken(
                            InstanceAfterLookup(begun, cl, responses[1], ms), responses[2]) :
                      ms \in {t \in Times : t >= startedMs}}
        ELSE {}

StaticCalls == {ops[c] : c \in {x \in CallerIds : ops[x].static}}

\* C17: a call of the static GitHubAppAuth.createAccessToken(options) has
\* sent the requests and has the outcome of constructing a client from the
\* same options and calling its createAccessToken with the same options: the
\* constructor's error and no request when construction fails, and otherwise
\* the requests, the value or the error of the instance method under the
\* same responses.
C17_StaticHelperIsConstructThenCall ==
    \A op \in StaticCalls :
        LET cl == Construct(options, globalFetch)
        IN  /\ op.args = [owner |-> options.owner, repo |-> options.repo,
                          installationId |-> options.installationId]
            /\ IF cl.status = "threw"
               THEN /\ op.pc = "threw" /\ op.error = cl.error
                    /\ op.requests = <<>> /\ op.value = Undef
               ELSE [op EXCEPT !.static = FALSE]
                        \in InstanceRuns(cl, op.args, op.startedMs, op.responses)

C17_Witness ==
    \E op \in StaticCalls :
        /\ op.pc = "returned" /\ op.value = Str("token-xyz")
        /\ Len(op.requests) = 2
        /\ options.apiBaseUrl # Undef

\* Every error message the constructor or a call has raised
ErrorMessages ==
    {client.error} \cup {ops[c].error : c \in CallerIds}

\* C18 (as claimed): no error message of the constructor, createJwt,
\* resolveInstallationId or createAccessToken contains the private key or a
\* JWT the client has minted, whatever the transport throws or returns.
C18_NoCredentialInErrors ==
    \A m \in ErrorMessages :
        /\ Trim(options.privateKey) # "" => ~Includes(m, Trim(options.privateKey))
        /\ client.status = "constructed" => ~Includes(m, client.privateKey.s)
        /\ \A jwt \in MintedJwts : ~Includes(m, jwt)

-----------------------------------------------------------------------------
(* Concurrent calls on one client: two callers, whose calls overlap in     *)
(* every order the awaits allow.                                           *)

ConcurrentOptions ==
    {o \in OptionsObjects :
        /\ Construct(o, TRUE).status = "constructed"
        /\ o.fetch # Undef /\ o.apiBaseUrl = Undef /\ o.jwtExpiresInSeconds = Undef}

ConcurrentOwnerArgs == {Undef, Str("acme")}

ConcurrentRepoArgs == {Undef, Str("app")}

ConcurrentIdArgs == {Undef, Num(55)}

ConcurrentLookupResponses ==
    {r \in LookupResponses : r.threw \/ r.text = "No install" \/ r.json.id = Num(987)}

ConcurrentTokenResponses ==
    {r \in TokenResponses : r.threw \/ r.text = "No access" \/ r.json.token = Str("token-xyz")}

InitConcurrent ==
    /\ globalFetch = TRUE
    /\ options \in ConcurrentOptions
    /\ client = Construct(options, globalFetch)
    /\ clockMs = ClockStartMs
    /\ callers = CallerIds
    /\ ops = [c \in CallerIds |-> IdleOp]

NextConcurrent ==
    \/ \E c \in CallerIds : CreateJwt(c)
    \/ \E c \in CallerIds, owner \in ConcurrentOwnerArgs, repo \in ConcurrentRepoArgs :
           ResolveInstallationId(c, owner, repo)
    \/ \E c \in CallerIds, owner \in ConcurrentOwnerArgs, repo \in ConcurrentRepoArgs,
          installationId \in ConcurrentIdArgs :
           CreateAccessToken(c, owner, repo, installationId)
    \/ \E c \in CallerIds :
           /\ ops[c].pc = "lookup"
           /\ \E response \in ConcurrentLookupResponses : LookupSettles(c, response)
    \/ \E c \in CallerIds :
           /\ ops[c].pc = "token"
           /\ \E response \in ConcurrentTokenResponses : TokenSettles(c, response)
    \/ Tick

SpecConcurrent == InitConcurrent /\ [][NextConcurrent]_vars

\* What a call of `method` with `args` at startedMs on client cl has sent and
\* how it stands once the transport has answered it with `responses`
RunsOf(cl, method, args, startedMs, responses) ==
    CASE method = "createJwt" ->
           {Fulfil(Invoke("createJwt", NoArgs, startedMs), Str(createJwt(cl, startedMs)))}
      [] method = "resolveInstallationId" ->
           LET begun == resolveInstallationIdBegin(
                            Invoke("resolveInstallationId", args, startedMs), cl,
                            args.owner, args.repo, startedMs)
               answered == [begun EXCEPT !.responses = responses]
               outcome == resolveInstallationIdSettle(begun.owner, begun.repo, responses[1])
           IN  IF Len(responses) = 0 THEN {begun}
               ELSE IF begun.pc # "lookup" \/ Len(responses) > 1 THEN {}
               ELSE IF outcome.threw THEN {Reject(answered, outcome.message)}
               ELSE {Fulfil(answered, outcome.value)}
      [] method = "createAccessToken" -> InstanceRuns(cl, args, startedMs, responses)
      [] OTHER -> {IdleOp}

\* Every call stands where its own arguments, the client's configuration and
\* the responses to its own requests put it.
SelfContained ==
    \A c \in CallerIds :
        ops[c] \in RunsOf(client, ops[c].method, ops[c].args, ops[c].startedMs,
                          ops[c].responses)

\* C19: the client's state is at all times what the constructor made of the
\* options, and under every interleaving of concurrent calls each call's
\* requests and result are those its own arguments, the client's
\* configuration and the responses to its own requests determine, whatever
\* the other call in flight does.
C19_CallsSelfContained ==
    /\ client = Construct(options, globalFetch)
    /\ SelfContained

C19_Witness ==
    /\ ops[1].method = "createAccessToken" /\ ops[1].pc = "lookup"
    /\ ops[2].method = "createAccessToken" /\ ops[2].pc = "returned"
    /\ ops[1].startedMs < ops[2].startedMs
    /\ ops[1].args = ops[2].args

-----------------------------------------------------------------------------
(* normalizePrivateKey on its own: the inputs are all texts of up to       *)
(* MaxKeyTokens pieces, each a letter, a space, a line break, a backslash  *)
(* or the two-character escape backslash + n.                              *)

MaxKeyTokens == 3

KeyTokens == {"k", " ", "\n", "\\", "\\n"}

RECURSIVE Concat(_)
Concat(pieces) ==
    IF Len(pieces) = 0 THEN "" ELSE Head(pieces) \o Concat(Tail(pieces))

KeyInputs == UNION {{Concat(t) : t \in [1..n -> KeyTokens]} : n \in 0..MaxKeyTokens}

InitPrivateKey ==
    /\ globalFetch = FALSE
    /\ options \in {[NoOptions EXCEPT !.privateKey = k] : k \in KeyInputs}
    /\ client = NoClient
    /\ clockMs = ClockStartMs
    /\ callers = {}
    /\ ops = [c \in CallerIds |-> IdleOp]

\* normalizePrivateKey(options.privateKey); the outcome is kept in `client`.
NormalizePrivateKey ==
    /\ client.status = "none"
    /\ LET r == normalizePrivateKey(options.privateKey)
       IN  client' = IF r.threw THEN ConstructorThrew(r.message)
                     ELSE [NoClient EXCEPT !.status = "returned", !.privateKey = r.value]
    /\ UNCHANGED <<globalFetch, options, clockMs, callers, ops>>

NextPrivateKey == NormalizePrivateKey

SpecPrivateKey == InitPrivateKey /\ [][NextPrivateKey]_vars

\* C20 (as claimed): normalizePrivateKey fails exactly when its input is
\* empty after trimming; otherwise the result is the input with every
\* backslash + n replaced by a line break and nothing else changed, so an
\* input without that escape is returned unchanged.
C20_OnlyEscapesReplaced ==
    client.status # "none"
    => /\ client.status = "threw" <=> Trim(options.privateKey) = ""
       /\ client.status = "threw" => client.error = NonEmptyStringMessage("privateKey")
       /\ client.status = "returned"
          => /\ client.privateKey.s = ReplaceAll(options.privateKey, "\\n", "\n")
             /\ ~Includes(options.privateKey, "\\n")
                => client.privateKey.s = options.privateKey

\* C20 (amended): normalizePrivateKey fails exactly when its input is empty
\* after trimming; otherwise the result is the trimmed input with every
\* backslash + n replaced by a line break and nothing else changed: no
\* escape is left, and writing the line breaks back as escapes gives the
\* trimmed input with its line breaks written as escapes.  An input without
\* the escape and without leading or trailing whitespace is returned
\* unchanged.
C20_TrimmedThenEscapesReplaced ==
    client.status # "none"
    => /\ client.status = "threw" <=> Trim(options.privateKey) = ""
       /\ client.status = "threw" => client.error = NonEmptyStringMessage("privateKey")
       /\ client.status = "returned"
          => /\ client.privateKey.s = ReplaceAll(Trim(options.privateKey), "\\n", "\n")
             /\ ~Includes(client.privateKey.s, "\\n")
             /\ ReplaceAll(client.privateKey.s, "\n", "\\n")
                    = ReplaceAll(Trim(options.privateKey), "\n", "\\n")
             /\ ~Includes(options.privateKey, "\\n")
                   /\ Trim(options.privateKey) = options.privateKey
                => client.privateKey.s = options.privateKey

C20_Witness ==
    /\ options.privateKey = "k\\n\n"
    /\ client.status = "returned"
    /\ client.privateKey = Str("k\n")

-----------------------------------------------------------------------------
(* Per-call inputs *)

\* A per-call input the call must refuse: an installationId that is not a
\* positive integer, an owner or a repo that is empty after trimming.
InvalidCallInput(args) ==
    \/ args.installationId # Undef /\ ~ValidId(args.installationId)
    \/ args.owner # Undef /\ Trim(args.owner.s) = ""
    \/ args.repo # Undef /\ Trim(args.repo.s) = ""

\* C21 (as claimed): a call of resolveInstallationId or createAccessToken
\* with an invalid per-call input fails before any request is handed to the
\* transport, also when the client has valid defaults.
C21_InvalidCallInputRefused ==
    \A op \in Invocations :
        op.method \in {"resolveInstallationId", "createAccessToken"}
        /\ InvalidCallInput(op.args)
        => op.pc = "threw" /\ op.requests = <<>>

\* The call names exactly one field of the repository target, and needs the
\* target: it is a resolveInstallationId, or a createAccessToken with no
\* installation id from its argument or the client.
PartialTargetCall(op) ==
    /\ \/ op.method = "resolveInstallationId"
       \/ /\ op.method = "createAccessToken"
          /\ op.args.installationId = Undef /\ client.installationId = Undef
    /\ \/ Truthy(op.args.owner) /\ op.args.repo = Undef
       \/ op.args.owner = Undef /\ Truthy(op.args.repo)

\* C22: a call that names only owner (or only repo) on a client with a
\* default owner/repo sends, as its first request, the lookup for the mixed
\* pair, the field named and the default of the other, and does not fail with
\* MissingTarget; the same call on a client without a default target fails
\* with MissingTarget and sends nothing.
C22_FallbackPerField ==
    \A op \in {o \in Invocations : PartialTargetCall(o)} :
        IF client.owner # Undef /\ client.repo # Undef
        THEN /\ Len(op.requests) >= 1
             /\ op.requests[1].method = "GET"
             /\ op.requests[1].url =
                    client.apiBaseUrl.s \o "/repos/"
                    \o (IF op.args.owner # Undef THEN op.args.owner.s ELSE client.owner.s)
                    \o "/"
                    \o (IF op.args.repo # Undef THEN op.args.repo.s ELSE client.repo.s)
                    \o "/installation"
             /\ op.error # MissingTargetMessage
        ELSE /\ op.pc = "threw" /\ op.error = MissingTargetMessage
             /\ op.requests = <<>>

C22_Witness ==
    \E op \in Invocations :
        /\ op.method = "createAccessToken"
        /\ op.args = [owner |-> Undef, repo |-> Str("app"), installationId |-> Undef]
        /\ client.owner = Str("octo") /\ client.repo = Str("hello")
        /\ client.installationId = Undef /\ client.apiBaseUrl = Str(DEFAULT_GITHUB_API_BASE_URL)
        /\ Len(op.requests) >= 1
        /\ op.requests[1].url = "https://api.github.com/repos/octo/app/installation"

====
